---- MODULE Spec2Model ----
(***************************************************************************)
(* permissions_sync (psync): one pass of rootCmd.Run in cmd/root.go, and   *)
(* of the two other entry points of the repository, Psync in psync.go and  *)
(* the older rootCmd.Run of unnamed/part_000.                              *)
(*                                                                         *)
(* The pass reads the Okta dev_ group (active and deprovisioned/suspended  *)
(* user ids), the Gitlab AFKL-MCP group (the entitlement population, whose *)
(* members carry the SAML identity that links a Gitlab account to an Okta  *)
(* user) and the Gitlab dev group (the access group); it adds the eligible *)
(* accounts that are missing, then removes the deprovisioned ones.         *)
(*                                                                         *)
(* The two other entry points do not split the Okta users by status and    *)
(* never remove a member; part_000 also reads the SAML identity of every   *)
(* AFKL-MCP member without testing it for nil.                             *)
(*                                                                         *)
(* The model follows one Okta dev_ group and its Gitlab group: the body of *)
(* the loop over oktaGroups is the same for every group.                   *)
(***************************************************************************)
EXTENDS Integers, Sequences, FiniteSets, TLC

\* ---------------------------------------------------------------- bounds
\* Gitlab accounts (and Okta users) are numbered 1..NumAccounts.
NumAccounts == 2
\* How many times the command is run in a row over the same upstream data.
MaxPasses == 2

\* ------------------------------------------------------ program constants
\* gitlab.DeveloperPermissions, the level every added member gets.
DeveloperPermissions == 30
\* The ceiling of GetGitlabGroupMembers: `u.AccessLevel < 50`.
MaxAccessLevel == 50

Accounts == 1..NumAccounts
\* Access levels a Gitlab member can hold in the model: one under the
\* ceiling (the grant level itself) and one at the ceiling.
AccessLevels == {DeveloperPermissions, MaxAccessLevel}
\* A Gitlab group is a function from its members' account ids to their
\* access levels.
Groups == UNION {[S -> AccessLevels] : S \in SUBSET Accounts}
IsMember(group, k) == k \in DOMAIN group
Statuses == {"ACTIVE", "SUSPENDED", "DEPROVISIONED"}

\* The entry points of the repository, named by their files.
EntryPoints == {"root.go", "psync.go", "part_000"}
\* Only cmd/root.go splits the Okta users by status and has a remove phase.
SplitsByStatus(e) == e = "root.go"
\* part_000 builds afklUids without testing GroupSAMLIdentity for nil.
ChecksIdentity(e) == e # "part_000"

\* The Okta user id of user k, which is also the ExternUID of the SAML
\* identity of Gitlab account k when that account has one.
UidOf(k) == "u" \o ToString(k)

\* A *gitlab.GroupSAMLIdentity pointer: <<>> is nil, <<uid>> points to an
\* identity whose ExternUID is uid.
NilIdentity == <<>>
ExternUID(saml) == saml[1]

VARIABLES
    entry,          \* the entry point that runs
    \* ---- the two external systems
    directory,      \* Okta: user k -> the statuses it is listed with in the dev_ group
    identity,       \* Gitlab: account k -> its group SAML identity (or nil)
    afklGroup,      \* Gitlab: the AFKL-MCP group, member k -> its access level
    devGroup,       \* Gitlab: the dev group, member k -> its access level
    \* ---- the locals of rootCmd.Run
    pc,             \* where the run is
    pass,           \* which run of the command this is
    oktaGroups,
    afklMembers,
    afklUids,
    glabgroup,
    glabgroupMembers,
    glabgroupUids,
    usersToAdd,
    usersToRemove,
    i,              \* position of the outer loop (add loop, remove loop)
    j,              \* position of the inner loop
    \* ---- history
    fetchedDev,     \* devGroup as it was when the run listed it
    addCalls,       \* the AddGroupMember calls of this run: [ID, err]
    removeCalls,    \* the RemoveGroupMember calls of this run: [ID, err]
    previous        \* the calls of the run before this one

world == <<directory, identity, afklGroup, devGroup>>
locals == <<oktaGroups, afklMembers, afklUids, glabgroup, glabgroupMembers,
            glabgroupUids, usersToAdd, usersToRemove, i, j>>
history == <<fetchedDev, addCalls, removeCalls, previous>>
vars == <<entry, world, pc, pass, locals, history>>

\* ---------------------------------------------------------------- helpers
InSeq(x, s) == \E n \in 1..Len(s) : s[n] = x
Range(s) == {s[n] : n \in 1..Len(s)}

RECURSIVE Flatten(_)
Flatten(ss) == IF ss = <<>> THEN <<>> ELSE Head(ss) \o Flatten(Tail(ss))

\* ------------------------------------------------------------ Okta gateway
\* ctl.Group.ListGroupUsers: the users of the dev_ group in id order; a
\* user listed with several statuses appears once per status.
ListGroupUsers(dir) ==
    Flatten([k \in Accounts |->
        Flatten(<< IF "ACTIVE" \in dir[k]
                     THEN <<[Id |-> UidOf(k), Status |-> "ACTIVE"]>> ELSE <<>>,
                   IF "SUSPENDED" \in dir[k]
                     THEN <<[Id |-> UidOf(k), Status |-> "SUSPENDED"]>> ELSE <<>>,
                   IF "DEPROVISIONED" \in dir[k]
                     THEN <<[Id |-> UidOf(k), Status |-> "DEPROVISIONED"]>> ELSE <<>> >>)])

RECURSIVE SplitUsers(_, _)
\* The loop of GetOktaDevGroups over users: deprovisioned and suspended users
\* go to gr.Deprovisioned, every other user to gr.Users.
SplitUsers(users, gr) ==
    IF users = <<>> THEN gr
    ELSE LET u == Head(users) IN
         IF u.Status = "DEPROVISIONED" \/ u.Status = "SUSPENDED"
         THEN SplitUsers(Tail(users),
                         [gr EXCEPT !.Deprovisioned = Append(@, u.Id)])
         ELSE SplitUsers(Tail(users), [gr EXCEPT !.Users = Append(@, u.Id)])

GetOktaDevGroups(dir) ==
    << SplitUsers(ListGroupUsers(dir), [Users |-> <<>>, Deprovisioned |-> <<>>]) >>

\* getOktaDevGroups of psync.go and part_000: every listed user goes to
\* Users, whatever its status; the group has no Deprovisioned field.
GetOktaDevGroupsUnsplit(dir) ==
    LET users == ListGroupUsers(dir)
    IN  << [Users |-> [n \in 1..Len(users) |-> users[n].Id]] >>

\* ---------------------------------------------------------- Gitlab gateway
\* clt.Groups.ListAllGroupMembers: the members of a group in id order.
ListAllGroupMembers(group, ident) ==
    Flatten([k \in Accounts |->
        IF ~IsMember(group, k) THEN <<>>
        ELSE <<[ID |-> k, AccessLevel |-> group[k], GroupSAMLIdentity |-> ident[k]]>>])

\* A GetGitlabGroupMembers that returns every member, whatever its level.
GetGitlabGroupMembersUnfiltered(group, ident) == ListAllGroupMembers(group, ident)

\* GetGitlabGroupMembers: the listed members whose access level is under 50.
GetGitlabGroupMembers(group, ident) ==
    SelectSeq(ListAllGroupMembers(group, ident),
              LAMBDA u : u.AccessLevel < MaxAccessLevel)

\* gitlabClt.GroupMembers.AddGroupMember: the outcomes of one call. Gitlab
\* refuses to add an account that is already a member of the group (409);
\* any call can fail for reasons of its own.
AddGroupMember(group, id, level) ==
    IF IsMember(group, id)
    THEN {[err |-> TRUE, group |-> group]}
    ELSE {[err |-> FALSE,
           group |-> [k \in DOMAIN group \cup {id} |->
                         IF k = id THEN level ELSE group[k]]],
          [err |-> TRUE, group |-> group]}

\* gitlabClt.GroupMembers.RemoveGroupMember: the outcomes of one call.
RemoveGroupMember(group, id) ==
    IF ~IsMember(group, id)
    THEN {[err |-> TRUE, group |-> group]}
    ELSE {[err |-> FALSE, group |-> [k \in DOMAIN group \ {id} |-> group[k]]],
          [err |-> TRUE, group |-> group]}

\* A CheckErr that lets the run go on after an error.
CheckErrIgnore(err, next) == next

\* cobra.CheckErr(err): a non-nil error prints it and exits the process.
CheckErr(err, next) == IF err THEN "failed" ELSE next

\* ------------------------------------------------------------ set helpers
\* An Intersection that returns its first argument whole.
IntersectionFirst(a, b) == a

\* Intersection(a, b): the items of b that are in a, in b's order.
Intersection(a, b) == SelectSeq(b, LAMBDA item : InSeq(item, a))

\* A Difference that subtracts nothing.
DifferenceKeepAll(a, b) == a

\* Difference(a, b): the items of a that are not in b, in a's order.
Difference(a, b) == SelectSeq(a, LAMBDA item : ~InSeq(item, b))

\* ------------------------------------------------------------ correlation
\* afklUids: one slot per AFKL-MCP member, left "" when the member has no
\* SAML identity.
AfklUids(members) ==
    [n \in 1..Len(members) |->
        IF members[n].GroupSAMLIdentity # NilIdentity
        THEN ExternUID(members[n].GroupSAMLIdentity) ELSE ""]

\* Whether some AFKL-MCP member has no SAML identity.
SomeNilIdentity(members) ==
    \E n \in 1..Len(members) : members[n].GroupSAMLIdentity = NilIdentity

\* The first AFKL-MCP member without SAML identity (one past the end when
\* every member has one).
FirstNilIdentity(members) ==
    IF SomeNilIdentity(members)
    THEN CHOOSE n \in 1..Len(members) :
            /\ members[n].GroupSAMLIdentity = NilIdentity
            /\ \A m \in 1..(n - 1) : members[m].GroupSAMLIdentity # NilIdentity
    ELSE Len(members) + 1

\* afklUids of part_000 when its loop panics: the slots before the member
\* without identity are filled, the others are still "".
AfklUidsUntilPanic(members) ==
    [n \in 1..Len(members) |->
        IF n < FirstNilIdentity(members)
        THEN ExternUID(members[n].GroupSAMLIdentity) ELSE ""]

\* The nested loop over glabgroup and afklMembers: a dev group member is
\* matched by account ID with an AFKL-MCP member that has a SAML identity.
GlabgroupMembers(group, members) ==
    Flatten([n \in 1..Len(group) |->
        Flatten([m \in 1..Len(members) |->
            IF members[m].ID = group[n].ID
               /\ members[m].GroupSAMLIdentity # NilIdentity
            THEN <<[User |-> group[n],
                    SAMLID |-> ExternUID(members[m].GroupSAMLIdentity)]>>
            ELSE <<>>])])

GlabgroupUids(correlated) == [n \in 1..Len(correlated) |-> correlated[n].SAMLID]

\* Line 104-106: the Okta users that are AFKL-MCP members and whose identity
\* is not among the dev group's.
UsersToAdd(gr, uids, groupUids) == Difference(Intersection(gr.Users, uids), groupUids)

\* A usersToRemove that takes every deprovisioned user, member or not.
UsersToRemoveAll(gr, groupUids) == gr.Deprovisioned

\* A usersToRemove that takes every correlated member of the dev group.
UsersToRemoveEveryone(gr, groupUids) == groupUids

\* Line 127: the deprovisioned or suspended Okta users whose identity is among
\* the dev group's.
UsersToRemove(gr, groupUids) == Intersection(gr.Deprovisioned, groupUids)

\* ------------------------------------------------------------------- Init
TypeWorld ==
    /\ identity \in [Accounts -> {NilIdentity} \cup {<<UidOf(k)>> : k \in Accounts}]
    /\ \A k \in Accounts : identity[k] \in {NilIdentity, <<UidOf(k)>>}
    /\ afklGroup \in Groups
    /\ devGroup \in Groups

InitRun ==
    /\ pc = "start"
    /\ pass = 1
    /\ entry \in EntryPoints
    /\ oktaGroups = <<>>
    /\ afklMembers = <<>>
    /\ afklUids = <<>>
    /\ glabgroup = <<>>
    /\ glabgroupMembers = <<>>
    /\ glabgroupUids = <<>>
    /\ usersToAdd = <<>>
    /\ usersToRemove = <<>>
    /\ i = 1
    /\ j = 1
    /\ fetchedDev = devGroup
    /\ addCalls = <<>>
    /\ removeCalls = <<>>
    /\ previous = [ran |-> FALSE, addCalls |-> <<>>, removeCalls |-> <<>>]

\* Okta lists every user of a group once, with its one status.
InitEntryPoints ==
    /\ directory \in [Accounts -> {{}} \cup {{s} : s \in Statuses}]
    /\ TypeWorld
    /\ InitRun

\* The command of cmd/root.go over such a listing.
Init ==
    /\ InitEntryPoints
    /\ entry = "root.go"

\* An upstream that breaks its contract: a user may be listed as active and
\* as deprovisioned in the same group.
InitOverlap ==
    /\ directory \in [Accounts -> SUBSET {"ACTIVE", "DEPROVISIONED"}]
    /\ TypeWorld
    /\ InitRun
    /\ entry = "root.go"

\* ---------------------------------------------------------------- actions
g == oktaGroups[1]

\* Lines 69-81: the Okta groups, the AFKL-MCP members and their identities.
\* (psync.go:53-65, part_000:45-55, where a member without identity makes
\* m.GroupSAMLIdentity.ExternUID panic.)
StartPass ==
    /\ pc = "start"
    /\ oktaGroups' = IF SplitsByStatus(entry) THEN GetOktaDevGroups(directory)
                     ELSE GetOktaDevGroupsUnsplit(directory)
    /\ afklMembers' = GetGitlabGroupMembers(afklGroup, identity)
    /\ IF ~ChecksIdentity(entry) /\ SomeNilIdentity(afklMembers')
       THEN /\ afklUids' = AfklUidsUntilPanic(afklMembers')
            /\ pc' = "panic"
       ELSE /\ afklUids' = AfklUids(afklMembers')
            /\ pc' = "group"
    /\ UNCHANGED <<entry, world, pass, glabgroup, glabgroupMembers, glabgroupUids,
                   usersToAdd, usersToRemove, i, j, history>>

\* Lines 85-111: the dev group is listed and correlated, usersToAdd computed.
BeginGroup ==
    /\ pc = "group"
    /\ glabgroup' = GetGitlabGroupMembers(devGroup, identity)
    /\ glabgroupMembers' = GlabgroupMembers(glabgroup', afklMembers)
    /\ glabgroupUids' = GlabgroupUids(glabgroupMembers')
    /\ usersToAdd' = UsersToAdd(g, afklUids, glabgroupUids')
    /\ fetchedDev' = devGroup
    /\ i' = 1
    /\ j' = 1
    /\ pc' = "add"
    /\ UNCHANGED <<entry, world, pass, oktaGroups, afklMembers, afklUids,
                   usersToRemove, addCalls, removeCalls, previous>>

\* The next position of a nested loop whose inner sequence has n items.
NextI(n) == IF j < n THEN i ELSE i + 1
NextJ(n) == IF j < n THEN j + 1 ELSE 1

\* Lines 113-125: one turn of the inner loop of the add loop (the same loop
\* at psync.go:86-101 and part_000:74-89).
AddIter ==
    /\ pc = "add"
    /\ i <= Len(usersToAdd)
    /\ j <= Len(afklMembers)
    /\ LET x == usersToAdd[i]
           y == afklMembers[j]
       IN  IF y.GroupSAMLIdentity = NilIdentity
           THEN \* y.GroupSAMLIdentity.ExternUID on a nil pointer: the run panics
                /\ pc' = "panic"
                /\ UNCHANGED <<world, i, j, addCalls>>
           ELSE IF x = ExternUID(y.GroupSAMLIdentity)
           THEN \E o \in AddGroupMember(devGroup, y.ID, DeveloperPermissions) :
                    /\ devGroup' = o.group
                    /\ addCalls' = Append(addCalls, [ID |-> y.ID, err |-> o.err])
                    /\ pc' = CheckErr(o.err, "add")
                    /\ i' = NextI(Len(afklMembers))
                    /\ j' = NextJ(Len(afklMembers))
                    /\ UNCHANGED <<directory, identity, afklGroup>>
           ELSE /\ i' = NextI(Len(afklMembers))
                /\ j' = NextJ(Len(afklMembers))
                /\ UNCHANGED <<world, pc, addCalls>>
    /\ UNCHANGED <<entry, pass, oktaGroups, afklMembers, afklUids, glabgroup,
                   glabgroupMembers, glabgroupUids, usersToAdd, usersToRemove,
                   fetchedDev, removeCalls, previous>>

\* A ComputeRemove that lists the dev group again before it computes.
ComputeRemoveRefetch ==
    /\ pc = "add"
    /\ SplitsByStatus(entry)
    /\ i > Len(usersToAdd)
    /\ glabgroup' = GetGitlabGroupMembers(devGroup, identity)
    /\ glabgroupMembers' = GlabgroupMembers(glabgroup', afklMembers)
    /\ glabgroupUids' = GlabgroupUids(glabgroupMembers')
    /\ usersToRemove' = UsersToRemove(g, glabgroupUids')
    /\ i' = 1
    /\ j' = 1
    /\ pc' = "remove"
    /\ UNCHANGED <<entry, world, pass, oktaGroups, afklMembers, afklUids,
                   usersToAdd, history>>

\* Lines 126-132: the add loop is over, usersToRemove is computed. Only
\* cmd/root.go has this step.
ComputeRemove ==
    /\ pc = "add"
    /\ SplitsByStatus(entry)
    /\ i > Len(usersToAdd)
    /\ usersToRemove' = UsersToRemove(g, glabgroupUids)
    /\ i' = 1
    /\ j' = 1
    /\ pc' = "remove"
    /\ UNCHANGED <<entry, world, pass, oktaGroups, afklMembers, afklUids,
                   glabgroup, glabgroupMembers, glabgroupUids, usersToAdd, history>>

\* Lines 134-142: one turn of the inner loop of the remove loop.
RemoveIter ==
    /\ pc = "remove"
    /\ i <= Len(usersToRemove)
    /\ j <= Len(glabgroupMembers)
    /\ LET id == usersToRemove[i]
           member == glabgroupMembers[j]
       IN  IF id = member.SAMLID
           THEN \E o \in RemoveGroupMember(devGroup, member.User.ID) :
                    /\ devGroup' = o.group
                    /\ removeCalls' = Append(removeCalls,
                                             [ID |-> member.User.ID, err |-> o.err])
                    /\ pc' = CheckErr(o.err, "remove")
                    /\ UNCHANGED <<directory, identity, afklGroup>>
           ELSE UNCHANGED <<world, pc, removeCalls>>
    /\ i' = NextI(Len(glabgroupMembers))
    /\ j' = NextJ(Len(glabgroupMembers))
    /\ UNCHANGED <<entry, pass, oktaGroups, afklMembers, afklUids, glabgroup,
                   glabgroupMembers, glabgroupUids, usersToAdd, usersToRemove,
                   fetchedDev, addCalls, previous>>

\* Lines 143-144: the loops are over, "Sync completed successfully." In
\* psync.go (101-103) and part_000 (89-91) the run ends with the add loop.
EndPass ==
    /\ IF SplitsByStatus(entry)
       THEN pc = "remove" /\ i > Len(usersToRemove)
       ELSE pc = "add" /\ i > Len(usersToAdd)
    /\ pc' = "done"
    /\ UNCHANGED <<entry, world, pass, locals, history>>

\* The command is run again: nothing is kept from the run before.
NextPass ==
    /\ pc = "done"
    /\ pass < MaxPasses
    /\ pass' = pass + 1
    /\ pc' = "start"
    /\ oktaGroups' = <<>>
    /\ afklMembers' = <<>>
    /\ afklUids' = <<>>
    /\ glabgroup' = <<>>
    /\ glabgroupMembers' = <<>>
    /\ glabgroupUids' = <<>>
    /\ usersToAdd' = <<>>
    /\ usersToRemove' = <<>>
    /\ i' = 1
    /\ j' = 1
    /\ fetchedDev' = devGroup
    /\ previous' = [ran |-> TRUE, addCalls |-> addCalls, removeCalls |-> removeCalls]
    /\ addCalls' = <<>>
    /\ removeCalls' = <<>>
    /\ UNCHANGED <<entry, world>>

Next ==
    \/ StartPass
    \/ BeginGroup
    \/ AddIter
    \/ ComputeRemove
    \/ RemoveIter
    \/ EndPass
    \/ NextPass

Spec == Init /\ [][Next]_vars

SpecOverlap == InitOverlap /\ [][Next]_vars

\* Any of the three entry points.
SpecEntryPoints == InitEntryPoints /\ [][Next]_vars

\* ----------------------------------------------------------------- plans
\* The accounts the add loop calls AddGroupMember for when every call
\* succeeds: the AFKL-MCP members whose ExternUID is in usersToAdd. When a
\* member has no SAML identity the loop panics on it in its first outer
\* turn, so only the members before it that match usersToAdd[1] are called
\* for.
AddPlan ==
    IF usersToAdd = <<>> THEN {}
    ELSE IF SomeNilIdentity(afklMembers)
    THEN {afklMembers[m].ID : m \in {n \in 1..(FirstNilIdentity(afklMembers) - 1) :
            ExternUID(afklMembers[n].GroupSAMLIdentity) = usersToAdd[1]}}
    ELSE {afklMembers[m].ID : m \in {n \in 1..Len(afklMembers) :
            InSeq(ExternUID(afklMembers[n].GroupSAMLIdentity), usersToAdd)}}

\* The accounts the remove loop calls RemoveGroupMember for: the correlated
\* dev group members whose SAMLID is in usersToRemove.
RemovePlan ==
    {glabgroupMembers[m].User.ID : m \in {n \in 1..Len(glabgroupMembers) :
        InSeq(glabgroupMembers[n].SAMLID, usersToRemove)}}

\* ------------------------------------------------------- claim vocabulary
Fetched == pc # "start"
AddComputed == pc \notin {"start", "group"}
RemoveComputed == pc \in {"remove", "done"}
Eligible(k) == InSeq(UidOf(k), g.Users)
Deprovisioned(k) == InSeq(UidOf(k), g.Deprovisioned)
HasIdentity(k) == identity[k] # NilIdentity
\* Account k is in the entitlement set: an AFKL-MCP member under the ceiling.
InEntitlementSet(k) == \E n \in 1..Len(afklMembers) : afklMembers[n].ID = k
\* Account k was in the access group (under the ceiling) when it was listed.
InAccessGroup(k) == IsMember(fetchedDev, k) /\ fetchedDev[k] < MaxAccessLevel
CalledIds(calls) == {calls[n].ID : n \in 1..Len(calls)}
SucceededIds(calls) == {calls[n].ID : n \in {m \in 1..Len(calls) : ~calls[m].err}}

\* C1. Idempotence: a run that follows a run in which every add and every
\* remove succeeded, over the same Okta and AFKL-MCP data, computes an empty
\* usersToAdd and an empty usersToRemove and issues no call.
C1_Idempotence ==
    pass > 1 =>
        /\ usersToAdd = <<>>
        /\ usersToRemove = <<>>
        /\ addCalls = <<>>
        /\ removeCalls = <<>>

\* The second run is over and the first one both added and removed members.
C1_Witness ==
    /\ pass = 2
    /\ pc = "done"
    /\ previous.addCalls # <<>>
    /\ previous.removeCalls # <<>>

\* C2. No phantom grants: every identifier of usersToAdd is an active Okta
\* user and the ExternUID of an AFKL-MCP member, and every account
\* AddGroupMember is called for is such a member.
C2_NoPhantomGrants ==
    AddComputed =>
        /\ \A n \in 1..Len(usersToAdd) :
              /\ InSeq(usersToAdd[n], g.Users)
              /\ \E m \in 1..Len(afklMembers) :
                    /\ afklMembers[m].GroupSAMLIdentity # NilIdentity
                    /\ ExternUID(afklMembers[m].GroupSAMLIdentity) = usersToAdd[n]
        /\ \A k \in CalledIds(addCalls) :
              /\ InEntitlementSet(k)
              /\ HasIdentity(k)
              /\ Eligible(k)
              /\ InSeq(UidOf(k), afklUids)

\* A member was added while another active Okta user, who has no account in
\* the entitlement set, was not.
C2_Witness ==
    /\ pc = "done"
    /\ SucceededIds(addCalls) # {}
    /\ \E k \in Accounts :
          /\ Eligible(k)
          /\ ~InEntitlementSet(k)
          /\ ~IsMember(devGroup, k)

\* C3. RemovePlan is exactly the access group accounts whose federated
\* identifier is deprovisioned or suspended, whether or not the account is
\* listed in the entitlement set. The federated identifier of an account is
\* the one Gitlab lists for it among the members of AFKL-MCP, at any level;
\* the entitlement set is those members under the ceiling.
C3_RemovePlanExact ==
    RemoveComputed =>
        RemovePlan = {k \in Accounts :
                        /\ InAccessGroup(k)
                        /\ IsMember(afklGroup, k)
                        /\ HasIdentity(k)
                        /\ Deprovisioned(k)}

\* C4. Deprovision wins: an identifier listed as active and as deprovisioned
\* is never in usersToAdd, and is in usersToRemove when it holds access.
C4_DeprovisionWins ==
    AddComputed =>
        \A k \in Accounts :
            (Eligible(k) /\ Deprovisioned(k)) =>
                /\ ~InSeq(UidOf(k), usersToAdd)
                /\ (RemoveComputed /\ InAccessGroup(k) /\ HasIdentity(k)
                      /\ InEntitlementSet(k))
                   => InSeq(UidOf(k), usersToRemove)

\* C5. Accounts without a federated identifier are skipped, never an error:
\* the run does not crash on them and issues no call for them.
C5_MissingIdentityIsNoError ==
    /\ pc # "panic"
    /\ \A k \in CalledIds(addCalls) \cup CalledIds(removeCalls) : HasIdentity(k)

\* C6. No regrant: AddGroupMember is never called for an account that was a
\* member of the dev group, at whatever level.
C6_NoAddForMember ==
    \A k \in CalledIds(addCalls) : ~IsMember(fetchedDev, k)

\* The dev group as the succeeded calls of the run leave it.
Applied ==
    LET added == SucceededIds(addCalls)
        removed == SucceededIds(removeCalls)
    IN  [k \in (DOMAIN fetchedDev \cup added) \ removed |->
            IF k \in added THEN DeveloperPermissions ELSE fetchedDev[k]]

\* C7, as stated: a failed call leaves none of the group's mutations in
\* effect.
C7_NeverPartiallyApplied ==
    pc = "failed" => devGroup = fetchedDev

\* C7, amended: a failed call is the last call of the run (the run stops,
\* nothing is retried), and the calls that succeeded before it stay in
\* effect.
C7_AbortKeepsApplied ==
    /\ \A n \in 1..Len(addCalls) :
          addCalls[n].err => n = Len(addCalls) /\ removeCalls = <<>> /\ pc = "failed"
    /\ \A n \in 1..Len(removeCalls) :
          removeCalls[n].err => n = Len(removeCalls) /\ pc = "failed"
    /\ Cardinality(CalledIds(addCalls)) = Len(addCalls)
    /\ Cardinality(CalledIds(removeCalls)) = Len(removeCalls)
    /\ devGroup = Applied

\* A call failed after another one had changed the dev group.
C7_Witness ==
    /\ pc = "failed"
    /\ devGroup # fetchedDev

\* C8. Disjointness: usersToAdd and usersToRemove share no identifier, and
\* no account is both added and removed.
C8_Disjoint ==
    /\ Range(usersToAdd) \cap Range(usersToRemove) = {}
    /\ AddComputed => AddPlan \cap RemovePlan = {}
    /\ CalledIds(addCalls) \cap CalledIds(removeCalls) = {}

\* Both plans are not empty, and an identifier of one of them is listed as
\* active and as deprovisioned.
C8_Witness ==
    /\ RemoveComputed
    /\ usersToAdd # <<>>
    /\ usersToRemove # <<>>
    /\ \E k \in Accounts :
          /\ Eligible(k)
          /\ Deprovisioned(k)
          /\ UidOf(k) \in Range(usersToAdd) \cup Range(usersToRemove)

\* C9. No accidental revocation: RemoveGroupMember is called only for
\* members whose identifier is deprovisioned or suspended, and every other
\* member of the dev group stays in it at its level.
C9_NoAccidentalRevocation ==
    Fetched =>
        /\ \A k \in CalledIds(removeCalls) :
              IsMember(fetchedDev, k) /\ HasIdentity(k) /\ Deprovisioned(k)
        /\ \A k \in DOMAIN fetchedDev :
              ~(HasIdentity(k) /\ Deprovisioned(k)) =>
                  IsMember(devGroup, k) /\ devGroup[k] = fetchedDev[k]

\* A member was removed while another member, who is neither an active Okta
\* user nor in the entitlement set, is still there.
C9_Witness ==
    /\ pc = "done"
    /\ SucceededIds(removeCalls) # {}
    /\ \E k \in DOMAIN fetchedDev :
          /\ ~Eligible(k)
          /\ ~Deprovisioned(k)
          /\ ~InEntitlementSet(k)
          /\ IsMember(devGroup, k)

\* C10. Same snapshot: usersToAdd and usersToRemove are both computed from
\* the dev group as it was listed at the start of the group's processing
\* and from the one AFKL-MCP listing of the run; the adds applied in between
\* do not change the view usersToRemove is computed from.
C10_SameSnapshot ==
    AddComputed =>
        LET view == GlabgroupUids(GlabgroupMembers(
                        GetGitlabGroupMembers(fetchedDev, identity), afklMembers))
        IN  /\ glabgroupUids = view
            /\ usersToAdd = Difference(Intersection(g.Users, afklUids), view)
            /\ RemoveComputed =>
                  usersToRemove = Intersection(g.Deprovisioned, view)

\* usersToRemove is computed, and not empty, after adds changed the dev group.
C10_Witness ==
    /\ pc = "remove"
    /\ devGroup # fetchedDev
    /\ usersToRemove # <<>>

\* The account ids of a fetched view.
ViewIds(view) == {view[n].ID : n \in 1..Len(view)}

\* C11, as stated: the entitlement set and the access-group membership hold
\* only accounts whose level is strictly below the grant level, the level
\* AddGroupMember is called with.
C11_BelowGrantLevel ==
    /\ \A n \in 1..Len(afklMembers) : afklMembers[n].AccessLevel < DeveloperPermissions
    /\ \A n \in 1..Len(glabgroup) : glabgroup[n].AccessLevel < DeveloperPermissions

\* C11, amended: both views hold exactly the members of the fetched group
\* whose level is strictly below the fetch ceiling of 50, each with the
\* level it has in the group; members at the grant level are in the views.
C11_BelowCeiling ==
    /\ Fetched =>
          /\ ViewIds(afklMembers) =
                {k \in DOMAIN afklGroup : afklGroup[k] < MaxAccessLevel}
          /\ \A n \in 1..Len(afklMembers) :
                /\ afklMembers[n].AccessLevel = afklGroup[afklMembers[n].ID]
                /\ afklMembers[n].AccessLevel < MaxAccessLevel
    /\ AddComputed =>
          /\ ViewIds(glabgroup) =
                {k \in DOMAIN fetchedDev : fetchedDev[k] < MaxAccessLevel}
          /\ \A n \in 1..Len(glabgroup) :
                /\ glabgroup[n].AccessLevel = fetchedDev[glabgroup[n].ID]
                /\ glabgroup[n].AccessLevel < MaxAccessLevel

\* Both views were fetched; each holds a member at the grant level and each
\* fetched group has a member at the ceiling that its view leaves out.
C11_Witness ==
    /\ AddComputed
    /\ \E n \in 1..Len(afklMembers) : afklMembers[n].AccessLevel = DeveloperPermissions
    /\ \E n \in 1..Len(glabgroup) : glabgroup[n].AccessLevel = DeveloperPermissions
    /\ \E k \in DOMAIN afklGroup :
          afklGroup[k] >= MaxAccessLevel /\ k \notin ViewIds(afklMembers)
    /\ \E k \in DOMAIN fetchedDev :
          fetchedDev[k] >= MaxAccessLevel /\ k \notin ViewIds(glabgroup)

====
